---- MODULE Spec2Model ----
(***************************************************************************)
(* Run tracking in ResultDisplay (src/components/ResultDisplay.tsx): the   *)
(* React component state, its refs, the browser's live intervals and       *)
(* geolocation watches, the App-level user position and the localStorage   *)
(* value kept under the key 'runHistory'.                                  *)
(*                                                                         *)
(* Units.  A distance is an integer number of 1e-4 km (decimetres), so the *)
(* source's 0.005 km is 50.  A coordinate is a point of a local grid whose *)
(* step is GridStep decimetres; over a few metres the great-circle         *)
(* distance is the planar one, truncated here to whole decimetres.         *)
(***************************************************************************)
EXTENDS Integers, Sequences, FiniteSets, TLC

VARIABLES
    mounted,            \* a ResultDisplay instance is rendered by App
    hasGeolocation,     \* navigator.geolocation exists
    userCoordinates,    \* App state `coordinates`, passed down as a prop
    selectedPlace,      \* useState<Place | null>
    isTracking,         \* useState(false)
    runMetrics,         \* useState<RunMetrics>
    watchIdRef,         \* useRef<number | null>
    timerIntervalRef,   \* useRef<any>
    lastLocationRef,    \* useRef<Coordinates | null>
    liveTimers,         \* interval handles the browser will still fire
    liveWatches,        \* geolocation watch ids the browser will still serve
    nextHandle,         \* next handle setInterval / watchPosition hands out
    runHistory,         \* localStorage value under 'runHistory'
    now,                \* last value read from the clock
    history,            \* RunHistory's useState<RunHistoryEntry[]>, as last loaded
    app,                \* App's status and data, and its requests in flight
    calc                \* arguments and results of the geoUtils formatters called

vars == <<mounted, hasGeolocation, userCoordinates, selectedPlace, isTracking,
          runMetrics, watchIdRef, timerIntervalRef, lastLocationRef,
          liveTimers, liveWatches, nextHandle, runHistory, now, history, app, calc>>

\* ---------------------------------------------------------------- bounds
MaxTicks == 1
MaxPath == 2
MaxRuns == 2
MaxClock == 1
MaxQuietTicks == 5
MaxRequests == 2
StorageQuota == 1
HistoryQuota == 2

\* ------------------------------------------------------------- constants
\* The null of each nullable: no coordinates, no place, no handle (the handles
\* the browser hands out are positive).
NoCoords == [none |-> TRUE]
NoPlace == "<none>"
NoHandle == 0
NO_PACE == "--:--"
NOISE_THRESHOLD == 50
GridStep == 25

Coord(lat, lng) == [latitude |-> lat, longitude |-> lng]

\* The fixes the position source can deliver: from Coord(0, 0) the second is
\* exactly 5 m away and the third 7.9 m; the second and third are 3.5 m apart.
Fixes == {Coord(0, 0), Coord(0, 2), Coord(1, 3)}

Places == {"Ibirapuera"}

\* ------------------------------------------------------------ geoUtils
Abs(x) == IF x < 0 THEN -x ELSE x

\* The integer square root of n, known to lie in from..to.
Isqrt(n, from, to) == CHOOSE r \in from..to : r * r <= n /\ (r + 1) * (r + 1) > n

\* Mutant: only a move to the north counts in the latitude leg.
calculateDistanceNorthOnly(lat1, lng1, lat2, lng2) ==
    LET dLat == IF lat2 > lat1 THEN lat2 - lat1 ELSE 0
        dLng == Abs(lng2 - lng1)
    IN  Isqrt((dLat * dLat + dLng * dLng) * GridStep * GridStep,
              GridStep * (IF dLat > dLng THEN dLat ELSE dLng),
              GridStep * (dLat + dLng))

\* The distance is at least the longer of its two legs and at most their sum.
calculateDistance(lat1, lng1, lat2, lng2) ==
    LET dLat == Abs(lat2 - lat1)
        dLng == Abs(lng2 - lng1)
    IN  Isqrt((dLat * dLat + dLng * dLng) * GridStep * GridStep,
              GridStep * (IF dLat > dLng THEN dLat ELSE dLng),
              GridStep * (dLat + dLng))

Pad2(n) == IF n < 10 THEN "0" \o ToString(n) ELSE ToString(n)

\* Mutant: the pace is rounded to the nearest second.
calculatePaceRounded(distanceKm, elapsedSeconds) ==
    IF distanceKm <= 0 THEN NO_PACE
    ELSE LET paceSeconds == (elapsedSeconds * 10000 * 2 + distanceKm) \div (2 * distanceKm)
         IN  Pad2(paceSeconds \div 60) \o ":" \o Pad2(paceSeconds % 60)

calculatePace(distanceKm, elapsedSeconds) ==
    IF distanceKm <= 0 THEN NO_PACE
    ELSE LET paceSeconds == (elapsedSeconds * 10000) \div distanceKm
         IN  Pad2(paceSeconds \div 60) \o ":" \o Pad2(paceSeconds % 60)

\* Mutant: an hour component from 3600 seconds on.
formatTimeWithHours(totalSeconds) ==
    IF totalSeconds < 3600
    THEN Pad2(totalSeconds \div 60) \o ":" \o Pad2(totalSeconds % 60)
    ELSE ToString(totalSeconds \div 3600) \o ":" \o Pad2((totalSeconds % 3600) \div 60)
             \o ":" \o Pad2(totalSeconds % 60)

formatTime(totalSeconds) ==
    Pad2(totalSeconds \div 60) \o ":" \o Pad2(totalSeconds % 60)

\* A distance that has not been computed.
NoDistance == 0 - 1

\* No function of geoUtils has been called yet.
NoCall == [distanceKm |-> 0, elapsedSeconds |-> 0, totalSeconds |-> 0,
           pace |-> "", time |-> "",
           a |-> Coord(0, 0), b |-> Coord(0, 0),
           distance |-> NoDistance, distanceBack |-> NoDistance]

\* ------------------------------------------------------- component state
InitMetrics ==
    [distanceKm |-> 0, elapsedTimeSeconds |-> 0, currentPace |-> NO_PACE,
     path |-> <<>>, isTracking |-> FALSE]

EmptyStore == [kind |-> "missing", items |-> <<>>]

\* App's state (lines 10-11 of App), with the position requests and the route
\* fetches it has started and that have not called back yet.  lastFetch is the
\* request whose fetch was started last, 0 before the first.
NoData == [none |-> TRUE]

InitApp ==
    [status |-> "IDLE", data |-> NoData, locating |-> {}, fetching |-> {}, nextRequest |-> 1,
     lastFetch |-> 0]

\* RunHistory's state before its effect has run: useState([]), nothing thrown.
NotLoaded == [entries |-> <<>>, threw |-> FALSE]

InitWith(stores, positions, capabilities, calls) ==
    /\ mounted = TRUE
    /\ hasGeolocation \in capabilities
    /\ userCoordinates \in positions
    /\ selectedPlace = NoPlace
    /\ isTracking = FALSE
    /\ runMetrics = InitMetrics
    /\ watchIdRef = NoHandle
    /\ timerIntervalRef = NoHandle
    /\ lastLocationRef = NoCoords
    /\ liveTimers = {}
    /\ liveWatches = {}
    /\ nextHandle = 1
    /\ runHistory \in stores
    /\ now = 0
    /\ history = NotLoaded
    /\ app = InitApp
    /\ calc \in calls

Init ==
    InitWith({EmptyStore,
              [kind |-> "unparseable", items |-> <<>>],
              [kind |-> "nonarray", items |-> <<>>]},
             Fixes \cup {NoCoords}, BOOLEAN, {NoCall})

\* ------------------------------------------------------- saveRunToHistory
\* t is a reading of the clock: milliseconds since the epoch, below 1000 here.
Pad3(n) == IF n < 10 THEN "00" \o ToString(n)
           ELSE IF n < 100 THEN "0" \o ToString(n) ELSE ToString(n)

\* new Date().toISOString() of line 53, for an instant in the epoch's first second.
toISOString(t) == "1970-01-01T00:00:00." \o Pad3(t) \o "Z"

\* Mutant: the name of the place is stored as it is, without the fallback.
HistoryEntryNoFallback(metrics, place, t) ==
    [id |-> ToString(t), date |-> toISOString(t), placeName |-> place, metrics |-> metrics]

\* Mutant: the entry holds the metrics of the first render, not the current ones.
HistoryEntryStale(metrics, place, t) ==
    [id |-> ToString(t), date |-> toISOString(t),
     placeName |-> IF place = NoPlace \/ place = "" THEN "Corrida Livre" ELSE place,
     metrics |-> [distanceKm |-> 0, elapsedTimeSeconds |-> 0, currentPace |-> NO_PACE,
                  path |-> <<>>, isTracking |-> FALSE]]

\* Lines 51-56: id is Date.now().toString(), date is new Date().toISOString().
\* A place is modelled by its name; selectedPlace?.name || "Corrida Livre" gives
\* the fallback for no place and for a place whose name is empty.
HistoryEntry(metrics, place, t) ==
    [id |-> ToString(t), date |-> toISOString(t),
     placeName |-> IF place = NoPlace \/ place = "" THEN "Corrida Livre" ELSE place,
     metrics |-> metrics]

\* Mutant: the guard of line 48 is left out.
SaveSkippedNever(metrics) == FALSE

\* Mutant: a run without distance is not saved, whatever its elapsed time.
SaveSkippedWithoutDistance(metrics) == metrics.distanceKm = 0

\* The early return of line 48.
SaveSkipped(metrics) ==
    metrics.distanceKm = 0 /\ metrics.elapsedTimeSeconds = 0

\* The stored value by what JSON.parse makes of it: "missing" (getItem gives
\* null, or the empty text), "array" (items are its elements), "unparseable"
\* (JSON.parse throws), "nonarray" (null, a number, a boolean or an object:
\* nothing to iterate, no sort) and "string" (a JSON string: items are its
\* characters, iterable but without a sort).
\* Mutant: only a refused write throws; the stored value is not parsed.
SaveThrowsOnWriteOnly(store, writable) == ~writable

\* JSON.parse throws on an unparseable value and the spread throws on a parsed
\* value that is not iterable; setItem throws when the store refuses the write.
\* All three are caught at line 65 and leave the stored value as it was.
SaveThrows(store, writable) ==
    \/ store.kind = "unparseable"
    \/ store.kind = "nonarray"
    \/ ~writable

\* Mutant: the collection written holds the new entry alone.
saveRunToHistoryAlone(store, metrics, place, t, writable) ==
    IF SaveSkipped(metrics) THEN store
    ELSE IF SaveThrows(store, writable) THEN store
    ELSE [kind |-> "array", items |-> <<HistoryEntry(metrics, place, t)>>]

\* Lines 47-67.
saveRunToHistory(store, metrics, place, t, writable) ==
    IF SaveSkipped(metrics) THEN store
    ELSE IF SaveThrows(store, writable) THEN store
    ELSE [kind |-> "array",
          items |-> Append(store.items, HistoryEntry(metrics, place, t))]

\* ------------------------------------------------------------ stopTracking
\* seenTracking, seenMetrics and seenPlace are the isTracking, runMetrics and
\* selectedPlace of the render whose closure runs.
\* Mutant: clearWatch is never called.
ClearWatchForgotten == liveWatches

ClearWatch == IF watchIdRef # NoHandle THEN liveWatches \ {watchIdRef} ELSE liveWatches

\* Mutant: clearInterval is never called.
ClearTimerForgotten == liveTimers

ClearTimer == IF timerIntervalRef # NoHandle THEN liveTimers \ {timerIntervalRef} ELSE liveTimers

SavedOnStop(seenTracking) == seenTracking

\* Lines 71-83.  The setIsTracking(false) of line 85 is applied by the caller: it
\* takes effect in a mounted instance and is dropped in one being torn down.
stopTracking(seenTracking, seenMetrics, seenPlace, t, writable) ==
    /\ liveWatches' = ClearWatch
    /\ watchIdRef' = NoHandle
    /\ liveTimers' = ClearTimer
    /\ timerIntervalRef' = NoHandle
    /\ IF SavedOnStop(seenTracking)
       THEN /\ runHistory' = saveRunToHistory(runHistory, seenMetrics, seenPlace, t, writable)
            /\ now' = IF SaveSkipped(seenMetrics) THEN now ELSE t
       ELSE UNCHANGED <<runHistory, now>>

\* setItem succeeds or throws (the store refuses the write); it always throws
\* once the store holds StorageQuota entries.
WritableUpTo(quota) == IF Len(runHistory.items) < quota THEN BOOLEAN ELSE {FALSE}

Writable == WritableUpTo(StorageQuota)

\* Mutant: stopTracking leaves isTracking as it was.
TrackingAfterStopKept == isTracking

\* The setIsTracking(false) that ends stopTracking.
TrackingAfterStop == FALSE

\* The stop button exists only in the HUD of a selected place, while tracking.
StopButtonShown == mounted /\ selectedPlace # NoPlace /\ isTracking

\* Mutant: a stop resets the metrics on display.
StopClickWithReset(t, writable) ==
    /\ StopButtonShown
    /\ t \in now..MaxClock
    /\ stopTracking(isTracking, runMetrics, selectedPlace, t, writable)
    /\ isTracking' = TrackingAfterStop
    /\ runMetrics' = InitMetrics
    /\ UNCHANGED <<mounted, hasGeolocation, userCoordinates, selectedPlace,
                   lastLocationRef, nextHandle, history, app, calc>>

StopClickWith(t, writable) ==
    /\ StopButtonShown
    /\ t \in now..MaxClock
    /\ stopTracking(isTracking, runMetrics, selectedPlace, t, writable)
    /\ isTracking' = TrackingAfterStop
    /\ UNCHANGED <<mounted, hasGeolocation, userCoordinates, selectedPlace,
                   runMetrics, lastLocationRef, nextHandle, history, app, calc>>

StopClick == \E t \in 0..MaxClock, writable \in Writable : StopClickWith(t, writable)

\* ----------------------------------------------------------- startTracking
\* Mutant: the start button is not hidden while tracking.
StartButtonAlways == mounted /\ selectedPlace # NoPlace

StartButtonShown == mounted /\ selectedPlace # NoPlace /\ ~isTracking

\* Mutant: the path always starts empty.
SeedPathEmpty == <<>>

SeedPath == IF userCoordinates # NoCoords THEN <<userCoordinates>> ELSE <<>>

\* Mutant: start resumes the metrics of the session before.
StartMetricsResumed == [runMetrics EXCEPT !.isTracking = TRUE]

\* The setRunMetrics of lines 97-103.
StartMetrics ==
    [distanceKm |-> 0, elapsedTimeSeconds |-> 0, currentPace |-> NO_PACE,
     path |-> SeedPath, isTracking |-> TRUE]

\* Mutant: the capability is not checked.
StartRefusedNever == FALSE

\* Without navigator.geolocation the handler alerts and returns (lines 89-92).
StartRefused == ~hasGeolocation

StartClick ==
    /\ StartButtonShown
    /\ nextHandle <= MaxRuns
    /\ IF StartRefused
       THEN UNCHANGED <<isTracking, runMetrics, lastLocationRef, timerIntervalRef,
                        watchIdRef, liveTimers, liveWatches, nextHandle>>
       ELSE /\ isTracking' = TRUE
            /\ runMetrics' = StartMetrics
            /\ lastLocationRef' = userCoordinates
            /\ timerIntervalRef' = nextHandle
            /\ liveTimers' = liveTimers \cup {nextHandle}
            /\ watchIdRef' = nextHandle
            /\ liveWatches' = liveWatches \cup {nextHandle}
            /\ nextHandle' = nextHandle + 1
    /\ UNCHANGED <<mounted, hasGeolocation, userCoordinates, selectedPlace,
                   runHistory, now, history, app, calc>>

\* --------------------------------------------------------- timer callback
\* Mutant: the updater is applied twice for one firing of the interval.
TickMetricsTwice(prev) ==
    [prev EXCEPT !.elapsedTimeSeconds = prev.elapsedTimeSeconds + 2,
                 !.currentPace = calculatePace(prev.distanceKm, prev.elapsedTimeSeconds + 2)]

\* Mutant: the callback updates the metrics of the render that registered it,
\* not the ones handed to the updater.
TickMetricsFromRender(prev) ==
    [runMetrics EXCEPT !.elapsedTimeSeconds = runMetrics.elapsedTimeSeconds + 1,
                       !.currentPace = calculatePace(runMetrics.distanceKm,
                                                     runMetrics.elapsedTimeSeconds + 1)]

\* Mutant: the pace is computed from the time before the increment.
TickMetricsStalePace(prev) ==
    [prev EXCEPT !.elapsedTimeSeconds = prev.elapsedTimeSeconds + 1,
                 !.currentPace = calculatePace(prev.distanceKm, prev.elapsedTimeSeconds)]

\* Lines 109-116.
TickMetrics(prev) ==
    LET newTime == prev.elapsedTimeSeconds + 1
    IN  [prev EXCEPT !.elapsedTimeSeconds = newTime,
                     !.currentPace = calculatePace(prev.distanceKm, newTime)]

\* The interval callback, as long as the session has run for less than limit
\* seconds; it acts on a mounted instance only.
TickWithin(limit) ==
    /\ liveTimers # {}
    /\ runMetrics.elapsedTimeSeconds < limit
    /\ runMetrics' = IF mounted THEN TickMetrics(runMetrics) ELSE runMetrics
    /\ UNCHANGED <<mounted, hasGeolocation, userCoordinates, selectedPlace,
                   isTracking, watchIdRef, timerIntervalRef, lastLocationRef,
                   liveTimers, liveWatches, nextHandle, runHistory, now, history, app, calc>>

Tick == TickWithin(MaxTicks)

\* ------------------------------------------------- watchPosition callbacks
FixDistance(newCoords) ==
    calculateDistance(lastLocationRef.latitude, lastLocationRef.longitude,
                      newCoords.latitude, newCoords.longitude)

\* Mutant: any movement at all passes the filter.
PassesNoiseFilterAnyMove(dist) == dist > 0

PassesNoiseFilter(dist) == dist > NOISE_THRESHOLD

\* Mutant: an accepted fix starts the path over.
AcceptMetricsRestartsPath(prev, newCoords, dist) ==
    [prev EXCEPT !.distanceKm = prev.distanceKm + dist,
                 !.path = <<newCoords>>]

\* Lines 141-148.
\* Mutant: an accepted fix extends the path and adds no distance.
AcceptMetricsKeepsDistance(prev, newCoords, dist) ==
    [prev EXCEPT !.path = Append(prev.path, newCoords)]

AcceptMetrics(prev, newCoords, dist) ==
    [prev EXCEPT !.distanceKm = prev.distanceKm + dist,
                 !.path = Append(prev.path, newCoords)]

\* Mutant: the first fix is not recorded in the path.
FirstFixMetricsDropped(prev, newCoords) == prev

\* Line 153: the path becomes the one-element list of the fix.
FirstFixMetrics(prev, newCoords) == [prev EXCEPT !.path = <<newCoords>>]

FixMetrics(prev, newCoords) ==
    IF lastLocationRef # NoCoords
    THEN IF PassesNoiseFilter(FixDistance(newCoords))
         THEN AcceptMetrics(prev, newCoords, FixDistance(newCoords))
         ELSE prev
    ELSE FirstFixMetrics(prev, newCoords)

\* Mutant: the last-known position follows every fix, discarded or not.
FixLastLocationAlways(newCoords) == newCoords

FixLastLocation(newCoords) ==
    IF lastLocationRef # NoCoords
    THEN IF PassesNoiseFilter(FixDistance(newCoords)) THEN newCoords ELSE lastLocationRef
    ELSE newCoords

\* Mutant: what is forwarded is the filtered position, the last-known one as
\* it stood when the fix arrived.
ForwardedLastKnown(newCoords) == lastLocationRef

\* onUpdateCoordinates(newCoords), line 128: App's setCoordinates.
ForwardedCoordinates(newCoords) == newCoords

Fix(newCoords) ==
    /\ liveWatches # {}
    /\ Len(FixMetrics(runMetrics, newCoords).path) <= MaxPath
    /\ userCoordinates' = ForwardedCoordinates(newCoords)
    /\ IF mounted
       THEN /\ runMetrics' = FixMetrics(runMetrics, newCoords)
            /\ lastLocationRef' = FixLastLocation(newCoords)
       ELSE UNCHANGED <<runMetrics, lastLocationRef>>
    /\ UNCHANGED <<mounted, hasGeolocation, selectedPlace, isTracking, watchIdRef,
                   timerIntervalRef, liveTimers, liveWatches, nextHandle,
                   runHistory, now, history, app, calc>>

\* Mutant: the error callback calls setIsTracking(false).
PositionErrorEndsTracking ==
    /\ liveWatches # {}
    /\ isTracking' = FALSE
    /\ UNCHANGED <<mounted, hasGeolocation, userCoordinates, selectedPlace, runMetrics,
                   watchIdRef, timerIntervalRef, lastLocationRef, liveTimers,
                   liveWatches, nextHandle, runHistory, now, history, app, calc>>

\* Mutant: the error callback forgets the last-known position.
PositionErrorForgetsLast ==
    /\ liveWatches # {}
    /\ lastLocationRef' = NoCoords
    /\ UNCHANGED <<mounted, hasGeolocation, userCoordinates, selectedPlace, isTracking,
                   runMetrics, watchIdRef, timerIntervalRef, liveTimers, liveWatches,
                   nextHandle, runHistory, now, history, app, calc>>

\* The error callback of lines 156-158 only logs.
PositionError ==
    /\ liveWatches # {}
    /\ UNCHANGED vars

\* ------------------------------------------------------------- selection
SelectPlace(place) ==
    /\ mounted
    /\ selectedPlace' = place
    /\ UNCHANGED <<mounted, hasGeolocation, userCoordinates, isTracking, runMetrics,
                   watchIdRef, timerIntervalRef, lastLocationRef, liveTimers,
                   liveWatches, nextHandle, runHistory, now, history, app, calc>>

\* ------------------------------------------------------- mount and unmount
\* Mutant: the cleanup runs the stopTracking of the latest render.
TearDownLatestRender ==
    /\ stopTracking(isTracking, runMetrics, selectedPlace, now, TRUE)
    /\ mounted' = FALSE
    /\ UNCHANGED <<selectedPlace, isTracking, runMetrics, lastLocationRef, nextHandle>>

\* App stops rendering ResultDisplay (a new search sets its status to LOADING).
\* The cleanup registered by the effect of lines 41-45 runs the stopTracking of
\* the first render, which sees the state the component was constructed with.
\* The refs are shared by every render, so the handles it clears are the
\* current ones.  The state of the torn-down instance stays as it was: nothing
\* reads it again, and a state update on it is dropped.
TearDown ==
    /\ stopTracking(FALSE, InitMetrics, NoPlace, now, TRUE)
    /\ mounted' = FALSE
    /\ UNCHANGED <<selectedPlace, isTracking, runMetrics, lastLocationRef, nextHandle>>

Unmount ==
    /\ mounted
    /\ TearDown
    /\ UNCHANGED <<hasGeolocation, userCoordinates, history, app, calc>>

\* App renders a new ResultDisplay (lines 181-189 of App): a fresh instance
\* with the state and refs of lines 16-36.  RunHistory is rendered only in its
\* absence (lines 161-175 of App), so the state of RunHistory goes.
Construct ==
    /\ mounted' = TRUE
    /\ selectedPlace' = NoPlace
    /\ isTracking' = FALSE
    /\ runMetrics' = InitMetrics
    /\ watchIdRef' = NoHandle
    /\ timerIntervalRef' = NoHandle
    /\ lastLocationRef' = NoCoords
    /\ history' = NotLoaded
    /\ UNCHANGED <<liveTimers, liveWatches, nextHandle, runHistory, now>>

Mount ==
    /\ ~mounted
    /\ Construct
    /\ UNCHANGED <<hasGeolocation, userCoordinates, app, calc>>

\* ------------------------------------------------- RunHistory: loadHistory
\* new Date(date).getTime(): the instant whose ISO text is date.
getTime(date) == CHOOSE t \in 0..MaxClock : toISOString(t) = date

\* Mutant: no comparison, the element goes last.
InsertByDateLast(s, e) == Append(s, e)

\* e goes behind every element of the sorted s that is not older than it.
InsertByDate(s, e) ==
    LET k == Cardinality({i \in 1..Len(s) : getTime(s[i].date) >= getTime(e.date)})
    IN  SubSeq(s, 1, k) \o <<e>> \o SubSeq(s, k + 1, Len(s))

\* parsed.sort((a, b) => new Date(b.date).getTime() - new Date(a.date).getTime()),
\* line 15.  Array.prototype.sort is stable: equal dates keep the stored order.
RECURSIVE SortByDateDesc(_)
SortByDateDesc(s) ==
    IF s = <<>> THEN <<>>
    ELSE InsertByDate(SortByDateDesc(SubSeq(s, 1, Len(s) - 1)), s[Len(s)])

\* JSON.parse throws, or the parsed value has no sort method.
LoadThrows(store) == store.kind \in {"unparseable", "nonarray", "string"}

\* Mutant: loadHistory has no try/catch.
LoadCaughtNever == FALSE

\* The try/catch of lines 10-19.
LoadCaught == TRUE

\* Lines 9-20: prev is the state of the RunHistory being mounted.
loadHistory(prev, store) ==
    IF store.kind = "missing" THEN prev
    ELSE IF LoadThrows(store) THEN [prev EXCEPT !.threw = ~LoadCaught]
    ELSE [prev EXCEPT !.entries = SortByDateDesc(store.items)]

\* App renders RunHistory (only when it does not render ResultDisplay) and the
\* effect of the new instance loads the stored history.
Load ==
    /\ ~mounted
    /\ history' = loadHistory(NotLoaded, runHistory)
    /\ UNCHANGED <<mounted, hasGeolocation, userCoordinates, selectedPlace, isTracking,
                   runMetrics, watchIdRef, timerIntervalRef, lastLocationRef, liveTimers,
                   liveWatches, nextHandle, runHistory, now, app, calc>>

\* ------------------------------------------------ fetchRunningRoutes
\* The texts the route provider can answer with: prose without a bracket, a
\* bracketed list that is not JSON, a JSON list of places, and prose with a
\* bracketed citation such as [1], which is a JSON array but not one of places.
Responses == {"prose", "brokenList", "placeList", "citation"}

\* text.match(/\[[\s\S]*\]/), line 99.
JsonMatch(text) == text \in {"brokenList", "placeList", "citation"}

\* JSON.parse(cleanJson) of line 105 throws; caught at line 113.
ParseThrows(text) == text = "brokenList"

\* parsedPlaces.map(p => ({...p, leaderboard})), lines 108-111: one place per
\* element of the array, whatever the element is.  A place is modelled by its
\* name; the element of a citation has none.
EnrichedPlaces(text) == IF text = "placeList" THEN <<"Ibirapuera">> ELSE <<"">>

\* Lines 93-123: the value the promise resolves with, for a provider answer.
fetchRunningRoutes(text) ==
    [text |-> text,
     places |-> IF JsonMatch(text) /\ ~ParseThrows(text) THEN EnrichedPlaces(text) ELSE <<>>]

\* -------------------------------------------------------------------- App
\* ResultDisplay is rendered while status is SUCCESS and data is there (lines
\* 180-189 of App), RunHistory while status is IDLE and there is no data (lines
\* 161-175).
ResultShown(a) == a.status = "SUCCESS" /\ a.data # NoData

RunHistoryShown == app.status = "IDLE" /\ app.data = NoData

\* App's state becomes a and React renders: ResultDisplay is torn down,
\* constructed, or kept with its state.
Render(a) ==
    /\ app' = a
    /\ IF mounted /\ ~ResultShown(a)
       THEN TearDown /\ UNCHANGED history
       ELSE IF ~mounted /\ ResultShown(a)
       THEN Construct
       ELSE UNCHANGED <<mounted, selectedPlace, isTracking, runMetrics, watchIdRef,
                        timerIntervalRef, lastLocationRef, liveTimers, liveWatches,
                        nextHandle, runHistory, now, history>>

\* handleSearch, lines 15-26 of App, with a query typed in: the submit button
\* is disabled while status is LOADING (line 136).
HandleSearch ==
    /\ app.status # "LOADING"
    /\ app.nextRequest <= MaxRequests
    /\ Render([app EXCEPT !.status = "LOADING", !.data = NoData,
                          !.fetching = app.fetching \cup {app.nextRequest},
                          !.lastFetch = app.nextRequest,
                          !.nextRequest = app.nextRequest + 1])
    /\ UNCHANGED <<hasGeolocation, userCoordinates, calc>>

\* handleGeolocation, lines 36-44 of App: the GPS button is never disabled.
HandleGeolocation ==
    /\ app.nextRequest <= MaxRequests
    /\ IF ~hasGeolocation
       THEN UNCHANGED vars
       ELSE /\ Render([app EXCEPT !.status = "LOADING",
                                  !.locating = app.locating \cup {app.nextRequest},
                                  !.nextRequest = app.nextRequest + 1])
            /\ UNCHANGED <<hasGeolocation, userCoordinates, calc>>

\* The success callback of getCurrentPosition, lines 45-54 of App.
GeoSuccess(r, coords) ==
    /\ r \in app.locating
    /\ userCoordinates' = coords
    /\ Render([app EXCEPT !.locating = app.locating \ {r},
                          !.fetching = app.fetching \cup {r},
                          !.lastFetch = r])
    /\ UNCHANGED <<hasGeolocation, calc>>

\* The error callback of getCurrentPosition, lines 65-73 of App.
GeoError(r) ==
    /\ r \in app.locating
    /\ Render([app EXCEPT !.status = "IDLE", !.locating = app.locating \ {r}])
    /\ UNCHANGED <<hasGeolocation, userCoordinates, calc>>

\* A fetch resolves: lines 27-28 and 55-58 of App.
FetchResolve(r, text) ==
    /\ r \in app.fetching
    /\ Render([app EXCEPT !.status = "SUCCESS",
                          !.data = [request |-> r] @@ fetchRunningRoutes(text),
                          !.fetching = app.fetching \ {r}])
    /\ UNCHANGED <<hasGeolocation, userCoordinates, calc>>

\* A fetch rejects (generateContent failed, rethrown at line 127 of the
\* service): lines 29-32 and 59-63 of App.
FetchReject(r) ==
    /\ r \in app.fetching
    /\ Render([app EXCEPT !.status = "ERROR", !.fetching = app.fetching \ {r}])
    /\ UNCHANGED <<hasGeolocation, userCoordinates, calc>>

\* The place cards are those of data.places (lines 402-412).
SelectShownPlace ==
    /\ mounted
    /\ app.data # NoData
    /\ \E i \in 1..Len(app.data.places) : SelectPlace(app.data.places[i])

LoadShown == RunHistoryShown /\ Load

\* ------------------------------------------------------------------- Spec
Next ==
    \/ StartClick
    \/ StopClick
    \/ Tick
    \/ \E c \in Fixes : Fix(c)
    \/ PositionError
    \/ \E p \in Places : SelectPlace(p)
    \/ Unmount
    \/ Mount

Spec == Init /\ [][Next]_vars

\* -------------------------------------------------------------- SpecQuiet
\* The tracker with a silent position source: no fix is ever delivered, and a
\* session may run for MaxQuietTicks seconds.
InitQuiet == InitWith({EmptyStore}, Fixes \cup {NoCoords}, {TRUE}, {NoCall})

QuietTick == TickWithin(MaxQuietTicks)

NextQuiet ==
    \/ StartClick
    \/ StopClick
    \/ QuietTick
    \/ PositionError
    \/ \E p \in Places : SelectPlace(p)
    \/ Unmount
    \/ Mount

SpecQuiet == InitQuiet /\ [][NextQuiet]_vars

\* ------------------------------------------------------------- SpecPlaces
\* The tracker with several place cards and a silent position source.  The
\* user picks a card of PlacesBefore (one of them has an empty name) only
\* between runs and the card of PlacesDuring only during a run.
PlacesBefore == {"Ibirapuera", ""}

PlacesDuring == {"Villa-Lobos"}

InitPlaces == InitWith({EmptyStore}, {NoCoords}, {TRUE}, {NoCall})

SelectBefore == \E p \in PlacesBefore : ~isTracking /\ SelectPlace(p)

SelectDuring == \E p \in PlacesDuring : isTracking /\ SelectPlace(p)

NextPlaces ==
    \/ StartClick
    \/ StopClick
    \/ Tick
    \/ PositionError
    \/ SelectBefore
    \/ SelectDuring
    \/ Unmount
    \/ Mount

SpecPlaces == InitPlaces /\ [][NextPlaces]_vars

\* ------------------------------------------------------------- SpecRoutes
\* App from its first render, with its searches, and the tracker and
\* RunHistory it renders.
FixesRoutes == {Coord(0, 0)}

InitRoutes ==
    /\ mounted = FALSE
    /\ hasGeolocation = TRUE
    /\ userCoordinates = NoCoords
    /\ selectedPlace = NoPlace
    /\ isTracking = FALSE
    /\ runMetrics = InitMetrics
    /\ watchIdRef = NoHandle
    /\ timerIntervalRef = NoHandle
    /\ lastLocationRef = NoCoords
    /\ liveTimers = {}
    /\ liveWatches = {}
    /\ nextHandle = 1
    /\ runHistory = EmptyStore
    /\ now = 0
    /\ history = NotLoaded
    /\ app = InitApp
    /\ calc = NoCall

NextRoutes ==
    \/ HandleSearch
    \/ HandleGeolocation
    \/ \E r \in 1..MaxRequests, c \in FixesRoutes : GeoSuccess(r, c)
    \/ \E r \in 1..MaxRequests : GeoError(r)
    \/ \E r \in 1..MaxRequests, text \in Responses : FetchResolve(r, text)
    \/ \E r \in 1..MaxRequests : FetchReject(r)
    \/ SelectShownPlace
    \/ StartClick
    \/ StopClick
    \/ Tick
    \/ \E c \in FixesRoutes : Fix(c)
    \/ PositionError
    \/ LoadShown

SpecRoutes == InitRoutes /\ [][NextRoutes]_vars

\* ------------------------------------------------------------ SpecHistory
\* The tracker together with RunHistory, over every kind of stored value and a
\* store with room for HistoryQuota entries.  The user position is unknown at
\* the start and the position source delivers the fixes of FixesHistory.
AllStores ==
    {EmptyStore,
     [kind |-> "array", items |-> <<>>],
     [kind |-> "unparseable", items |-> <<>>],
     [kind |-> "nonarray", items |-> <<>>],
     [kind |-> "string", items |-> <<>>]}

FixesHistory == {Coord(0, 0), Coord(1, 3)}

InitHistory == InitWith(AllStores, {NoCoords}, {TRUE}, {NoCall})

StopClickHistory ==
    \E t \in 0..MaxClock, writable \in WritableUpTo(HistoryQuota) : StopClickWith(t, writable)

NextHistory ==
    \/ StartClick
    \/ StopClickHistory
    \/ Tick
    \/ \E c \in FixesHistory : Fix(c)
    \/ PositionError
    \/ \E p \in Places : SelectPlace(p)
    \/ Unmount
    \/ Mount
    \/ Load

SpecHistory == InitHistory /\ [][NextHistory]_vars

\* ----------------------------------------------------------- SpecGeoUtils
\* The functions of utils/geoUtils applied to arguments drawn from small
\* sets. Distances are in units of 1e-4 km: 10000 is 1 km, 100000 is 10 km.

Distances == {0 - 10000, 0, 79, 10000, 30000, 70000, 100000}

ElapsedTimes == {0, 1, 59, 61, 1000, 3600}

TotalSeconds == {0, 9, 59, 60, 65, 600, 3661, 7507}

\* Points on both sides of the equator and of the prime meridian.
GeoPoints == {Coord(0, 0), Coord(0, 2), Coord(1, 3), Coord(0 - 1, 2), Coord(2, 0 - 3)}

\* The formatters' arguments vary with the two points at the origin, and the
\* two points vary with the formatters' arguments at zero.
InitGeoUtils ==
    InitWith({EmptyStore}, {NoCoords}, {TRUE},
             {[NoCall EXCEPT !.distanceKm = d, !.elapsedSeconds = e, !.totalSeconds = s] :
                 d \in Distances, e \in ElapsedTimes, s \in TotalSeconds}
             \cup {[NoCall EXCEPT !.a = p, !.b = q] : p, q \in GeoPoints})

CallCalculateDistance ==
    /\ calc' = [calc EXCEPT !.distance =
                    calculateDistance(calc.a.latitude, calc.a.longitude,
                                      calc.b.latitude, calc.b.longitude)]
    /\ UNCHANGED <<mounted, hasGeolocation, userCoordinates, selectedPlace, isTracking,
                   runMetrics, watchIdRef, timerIntervalRef, lastLocationRef, liveTimers,
                   liveWatches, nextHandle, runHistory, now, history, app>>

CallCalculateDistanceBack ==
    /\ calc' = [calc EXCEPT !.distanceBack =
                    calculateDistance(calc.b.latitude, calc.b.longitude,
                                      calc.a.latitude, calc.a.longitude)]
    /\ UNCHANGED <<mounted, hasGeolocation, userCoordinates, selectedPlace, isTracking,
                   runMetrics, watchIdRef, timerIntervalRef, lastLocationRef, liveTimers,
                   liveWatches, nextHandle, runHistory, now, history, app>>

CallCalculatePace ==
    /\ calc' = [calc EXCEPT !.pace = calculatePace(calc.distanceKm, calc.elapsedSeconds)]
    /\ UNCHANGED <<mounted, hasGeolocation, userCoordinates, selectedPlace, isTracking,
                   runMetrics, watchIdRef, timerIntervalRef, lastLocationRef, liveTimers,
                   liveWatches, nextHandle, runHistory, now, history, app>>

CallFormatTime ==
    /\ calc' = [calc EXCEPT !.time = formatTime(calc.totalSeconds)]
    /\ UNCHANGED <<mounted, hasGeolocation, userCoordinates, selectedPlace, isTracking,
                   runMetrics, watchIdRef, timerIntervalRef, lastLocationRef, liveTimers,
                   liveWatches, nextHandle, runHistory, now, history, app>>

NextGeoUtils ==
    \/ CallCalculatePace
    \/ CallFormatTime
    \/ CallCalculateDistance
    \/ CallCalculateDistanceBack

SpecGeoUtils == InitGeoUtils /\ [][NextGeoUtils]_vars

\* ------------------------------------------------------------------ claims
Tracking == mounted /\ isTracking

\* The session has no distance and no elapsed time.
NothingRecorded == runMetrics.distanceKm = 0 /\ runMetrics.elapsedTimeSeconds = 0

PathDistance(i) ==
    calculateDistance(runMetrics.path[i].latitude, runMetrics.path[i].longitude,
                      runMetrics.path[i + 1].latitude, runMetrics.path[i + 1].longitude)

\* Sessions started and since ended, by a stop or by a teardown.
SessionsEnded == (nextHandle - 1) - (IF Tracking THEN 1 ELSE 0)

\* C1: while Tracking with a last-known position, a fix closer to it than the
\* noise threshold leaves distanceKm, path and the last-known position unchanged.
C1_NoiseFilterDiscards ==
    [][\A c \in Fixes :
          (/\ Tracking
           /\ lastLocationRef # NoCoords
           /\ FixDistance(c) < NOISE_THRESHOLD
           /\ Fix(c))
          => /\ runMetrics'.distanceKm = runMetrics.distanceKm
             /\ runMetrics'.path = runMetrics.path
             /\ lastLocationRef' = lastLocationRef]_vars

\* A fix was delivered in this session (the user position moved off the
\* last-known position) and was discarded as noise.
C1_Witness ==
    /\ Tracking
    /\ lastLocationRef # NoCoords
    /\ userCoordinates # lastLocationRef
    /\ FixDistance(userCoordinates) > 0
    /\ FixDistance(userCoordinates) < NOISE_THRESHOLD

\* C2: while Tracking with a last-known position, a fix whose distance d from it
\* is not below the threshold is accepted: distanceKm grows by d, the fix is
\* appended to path and becomes the last-known position.
C2_NotBelowThresholdAccepted ==
    [][\A c \in Fixes :
          (/\ Tracking
           /\ lastLocationRef # NoCoords
           /\ ~(FixDistance(c) < NOISE_THRESHOLD)
           /\ Fix(c))
          => /\ runMetrics'.distanceKm = runMetrics.distanceKm + FixDistance(c)
             /\ runMetrics'.path = Append(runMetrics.path, c)
             /\ lastLocationRef' = c]_vars

\* C3: a fix at exactly the threshold distance from the last-known position is
\* accepted: its distance is added, the path extended, the position updated.
C3_ExactThresholdAccepted ==
    [][\A c \in Fixes :
          (/\ Tracking
           /\ lastLocationRef # NoCoords
           /\ FixDistance(c) = NOISE_THRESHOLD
           /\ Fix(c))
          => /\ runMetrics'.distanceKm > runMetrics.distanceKm
             /\ Len(runMetrics'.path) = Len(runMetrics.path) + 1
             /\ lastLocationRef' = c]_vars

\* C4: path never holds two consecutive points closer than the noise threshold,
\* the seed position and the first accepted fix included.
C4_NoCloseNeighbours ==
    \A i \in 1..(Len(runMetrics.path) - 1) : PathDistance(i) >= NOISE_THRESHOLD

\* A seeded session that accepted a fix.
C4_Witness ==
    /\ Tracking
    /\ Len(runMetrics.path) = 2
    /\ runMetrics.distanceKm > 0

\* C5: the timer and the position subscription are live together or released
\* together, and they are live exactly when the tracker is Tracking: then the
\* only live handles are the ones the refs hold.
C5_ResourcesFollowTracking ==
    /\ (liveTimers # {}) <=> Tracking
    /\ (liveWatches # {}) <=> Tracking
    /\ Tracking => /\ liveTimers = {timerIntervalRef}
                   /\ liveWatches = {watchIdRef}

\* A session of this instance was started and then stopped.
C5_Witness ==
    /\ mounted
    /\ ~isTracking
    /\ runMetrics.isTracking
    /\ liveTimers = {}
    /\ liveWatches = {}

\* C6: a teardown while Tracking releases the timer and the subscription, so
\* that no tick and no fix handler can run after it.
C6_TeardownReleases ==
    [][(Tracking /\ ~mounted') => (liveTimers' = {} /\ liveWatches' = {})]_vars

\* A torn-down instance that was tracking when it went.
C6_Witness ==
    /\ ~mounted
    /\ isTracking
    /\ liveTimers = {}
    /\ liveWatches = {}

\* C7: a stop click on a session with distance or elapsed time, the store
\* readable and the write accepted, appends exactly one entry, whose metrics are
\* the session's distanceKm, elapsedTimeSeconds, currentPace and path.
C7_StopSavesFinalMetrics ==
    [][\A t \in 0..MaxClock :
          (/\ ~NothingRecorded
           /\ runHistory.kind \in {"missing", "array"}
           /\ StopClickWith(t, TRUE))
          => /\ runHistory'.kind = "array"
             /\ Len(runHistory'.items) = Len(runHistory.items) + 1
             /\ SubSeq(runHistory'.items, 1, Len(runHistory.items)) = runHistory.items
             /\ LET saved == runHistory'.items[Len(runHistory'.items)].metrics
                IN  /\ saved.distanceKm = runMetrics.distanceKm
                    /\ saved.elapsedTimeSeconds = runMetrics.elapsedTimeSeconds
                    /\ saved.currentPace = runMetrics.currentPace
                    /\ saved.path = runMetrics.path]_vars

\* A stopped session that covered ground over a tick, and its entry in the store.
C7_Witness ==
    /\ mounted
    /\ ~isTracking
    /\ runMetrics.distanceKm > 0
    /\ runMetrics.elapsedTimeSeconds > 0
    /\ runHistory.kind = "array"
    /\ Len(runHistory.items) = 1
    /\ runHistory.items[1].metrics = runMetrics

\* C8: a stop while Idle (the teardown's stop of an instance that is not
\* tracking) and a stop click on a session with no distance and no elapsed time
\* leave the stored history as it was.
C8_EmptyStopLeavesStore ==
    [][((Unmount /\ ~isTracking) \/ (StopClick /\ NothingRecorded))
          => runHistory' = runHistory]_vars

\* A session stopped before any tick or accepted fix, the store still without
\* a value.
C8_Witness ==
    /\ mounted
    /\ ~isTracking
    /\ runMetrics.isTracking
    /\ NothingRecorded
    /\ runHistory = EmptyStore

\* C9: the store never holds more entries than sessions have ended, and a step
\* taken while no session is in progress adds none.
C9_AtMostOneEntryPerSession ==
    /\ [](Len(runHistory.items) <= SessionsEnded)
    /\ [][~Tracking => runHistory' = runHistory]_vars

\* Two sessions have ended and one entry was written.
C9_Witness ==
    /\ SessionsEnded = 2
    /\ Len(runHistory.items) = 1

\* C10: no start runs while Tracking, so at most one timer and at most one
\* position subscription are live at any time.
C10_NoDoubleStart ==
    /\ Cardinality(liveTimers) <= 1
    /\ Cardinality(liveWatches) <= 1
    /\ ENABLED StartClick => ~Tracking

\* A second session in progress, with the one timer and the one watch it made.
C10_Witness ==
    /\ Tracking
    /\ nextHandle = 3
    /\ liveTimers = {2}
    /\ liveWatches = {2}

\* C11: a timer tick while Tracking adds exactly 1 to elapsedTimeSeconds, sets
\* currentPace to calculatePace of the unchanged distance and the new elapsed
\* time, and leaves distanceKm and path as they were.
C11_TickAdvancesTimeAndPace ==
    [][(Tracking /\ Tick) =>
        /\ runMetrics'.elapsedTimeSeconds = runMetrics.elapsedTimeSeconds + 1
        /\ runMetrics'.currentPace =
               calculatePace(runMetrics.distanceKm, runMetrics.elapsedTimeSeconds + 1)
        /\ runMetrics'.distanceKm = runMetrics.distanceKm
        /\ runMetrics'.path = runMetrics.path]_vars

\* A tick has fired on a session that had already covered distance: the pace
\* shown is a real one.
C11_Witness ==
    /\ Tracking
    /\ runMetrics.elapsedTimeSeconds >= 1
    /\ runMetrics.distanceKm > 0
    /\ runMetrics.currentPace # NO_PACE
    /\ runMetrics.currentPace =
           calculatePace(runMetrics.distanceKm, runMetrics.elapsedTimeSeconds)

\* C12: start() (the position capability being there) resets the tracker
\* whatever an earlier session left: distanceKm 0, elapsedTimeSeconds 0,
\* currentPace "--:--", isTracking true, and the path and the last-known
\* position seeded with the current user position if there is one, else an
\* empty path and no last-known position.
C12_StartResets ==
    [][(hasGeolocation /\ StartClick) =>
        /\ isTracking'
        /\ runMetrics'.isTracking
        /\ runMetrics'.distanceKm = 0
        /\ runMetrics'.elapsedTimeSeconds = 0
        /\ runMetrics'.currentPace = NO_PACE
        /\ IF userCoordinates # NoCoords
           THEN runMetrics'.path = <<userCoordinates>> /\ lastLocationRef' = userCoordinates
           ELSE runMetrics'.path = <<>> /\ lastLocationRef' = NoCoords]_vars

\* A second session has just been started after a first one that recorded a
\* run with distance: its metrics are the reset ones, seeded with the user
\* position.
C12_Witness ==
    /\ Tracking
    /\ nextHandle = 3
    /\ runHistory.kind = "array"
    /\ Len(runHistory.items) = 1
    /\ runHistory.items[1].metrics.distanceKm > 0
    /\ runMetrics = [distanceKm |-> 0, elapsedTimeSeconds |-> 0, currentPace |-> NO_PACE,
                     path |-> <<userCoordinates>>, isTracking |-> TRUE]
    /\ lastLocationRef = userCoordinates

\* C13: a fix delivered while Tracking with no last-known position becomes the
\* last-known position and is appended to the path; distanceKm does not change.
C13_FirstFixSeeds ==
    [][\A c \in Fixes :
        (Tracking /\ lastLocationRef = NoCoords /\ Fix(c)) =>
            /\ lastLocationRef' = c
            /\ runMetrics'.path = Append(runMetrics.path, c)
            /\ runMetrics'.distanceKm = runMetrics.distanceKm]_vars

\* A session started without a user position is waiting for its first fix, and
\* the fix can be delivered and is then the last-known position and the path.
C13_Witness ==
    /\ Tracking
    /\ lastLocationRef = NoCoords
    /\ ENABLED (\E c \in Fixes :
                   Fix(c) /\ lastLocationRef' = c /\ runMetrics'.path = <<c>>)

\* C14: every fix delivered while Tracking is forwarded to the ambient user
\* position, whether the noise filter accepts or discards it: after the fix
\* the user position is that raw fix.
C14_EveryFixForwarded ==
    [][\A c \in Fixes : (Tracking /\ Fix(c)) => userCoordinates' = c]_vars

\* A discarded fix was forwarded: the user position is neither the last-known
\* position nor any point of the path.
C14_Witness ==
    /\ Tracking
    /\ lastLocationRef # NoCoords
    /\ userCoordinates # NoCoords
    /\ userCoordinates # lastLocationRef
    /\ \A i \in 1..Len(runMetrics.path) : runMetrics.path[i] # userCoordinates

\* C15: a Position Source error reported while Tracking leaves the tracker
\* Tracking, its timer and its subscription live, and distanceKm,
\* elapsedTimeSeconds, path and the last-known position as they were.
C15_PositionErrorChangesNothing ==
    [][(Tracking /\ PositionError) =>
        /\ Tracking'
        /\ timerIntervalRef' = timerIntervalRef /\ timerIntervalRef' \in liveTimers'
        /\ watchIdRef' = watchIdRef /\ watchIdRef' \in liveWatches'
        /\ runMetrics'.distanceKm = runMetrics.distanceKm
        /\ runMetrics'.elapsedTimeSeconds = runMetrics.elapsedTimeSeconds
        /\ runMetrics'.path = runMetrics.path
        /\ lastLocationRef' = lastLocationRef]_vars

\* A session with time, distance and a last-known position in which the
\* position source can report an error; the error leaves this very state.
C15_Witness ==
    /\ Tracking
    /\ runMetrics.elapsedTimeSeconds > 0
    /\ runMetrics.distanceKm > 0
    /\ lastLocationRef # NoCoords
    /\ timerIntervalRef \in liveTimers
    /\ watchIdRef \in liveWatches
    /\ ENABLED PositionError

\* C16: only an explicit stop and a teardown take the tracker out of Tracking:
\* no tick, no fix, no position error and no persistence error ends a run.
C16_OnlyStopOrTeardownEndsRun ==
    [][(Tracking /\ ~Tracking') => (StopClick \/ Unmount)]_vars

\* A session that went through a tick and two recorded fixes was still there
\* to be stopped, and the stop took it out of Tracking although the store
\* refused the entry.
C16_Witness ==
    /\ mounted
    /\ ~isTracking
    /\ runMetrics.isTracking
    /\ runMetrics.elapsedTimeSeconds > 0
    /\ Len(runMetrics.path) = 2
    /\ runHistory.kind # "array"

C18_EntriesKept ==
    [][/\ Len(runHistory'.items) >= Len(runHistory.items)
       /\ Len(runHistory'.items) <= Len(runHistory.items) + 1
       /\ SubSeq(runHistory'.items, 1, Len(runHistory.items)) = runHistory.items
       /\ (runHistory.kind = "array" => runHistory'.kind = "array")
       /\ \A t \in 0..MaxClock :
            (/\ StopClickWith(t, TRUE)
             /\ ~NothingRecorded
             /\ runHistory.kind \in {"missing", "array"}) =>
                runHistory'.items =
                    Append(runHistory.items, HistoryEntry(runMetrics, selectedPlace, t))]_vars

\* Two sessions were saved one after the other: the entry of the first, a run
\* with distance, is still the first element behind the different entry of the
\* second, and both came out of a load.
C18_Witness ==
    /\ Len(runHistory.items) = 2
    /\ runHistory.items[1].metrics.distanceKm > 0
    /\ runHistory.items[2] # runHistory.items[1]
    /\ ~mounted
    /\ Len(history.entries) = 2

\* C19 (as stated): load() returns all the persisted entries and only those,
\* by date descending; after two successful saves on a store that was empty it
\* returns exactly those 2 entries with the later-saved one first.
C19_LaterSavedFirst ==
    [][(Load /\ runHistory.kind = "array" /\ Len(runHistory.items) = 2) =>
        history'.entries = <<runHistory.items[2], runHistory.items[1]>>]_vars

\* C19 (amended): load() returns all the persisted entries and only those,
\* none thrown, ordered by date descending; of two saved entries the
\* later-saved one comes first when its date is the later one, and entries of
\* equal date come in the order they were saved.
C19_LoadSortsByDate ==
    [][(Load /\ runHistory.kind = "array") =>
        LET s == runHistory.items
            h == history'.entries
        IN  /\ ~history'.threw
            /\ Len(h) = Len(s)
            /\ \E p \in Permutations(1..Len(s)) : \A i \in 1..Len(s) : h[i] = s[p[i]]
            /\ \A i, j \in 1..Len(h) : i < j => getTime(h[i].date) >= getTime(h[j].date)
            /\ Len(s) = 2 =>
                   h = IF getTime(s[2].date) > getTime(s[1].date)
                       THEN <<s[2], s[1]>>
                       ELSE s]_vars

\* Two runs saved at different instants have been loaded: the later-saved one
\* is first.
C19_Witness ==
    /\ ~mounted
    /\ runHistory.kind = "array"
    /\ Len(runHistory.items) = 2
    /\ runHistory.items[1].date # runHistory.items[2].date
    /\ history.entries = <<runHistory.items[2], runHistory.items[1]>>

\* C20: load() yields an empty history, and raises nothing, whenever the
\* stored value is missing, empty, unparseable, or parses to something that is
\* not a collection: with such a value in the store, loaded or not, RunHistory
\* holds no entry and nothing was thrown out of loadHistory.
C20_BadStoreLoadsEmpty ==
    (\/ runHistory.kind \in {"missing", "unparseable", "nonarray", "string"}
     \/ runHistory.items = <<>>) =>
        (history.entries = <<>> /\ ~history.threw)

\* RunHistory is rendered over an unparseable stored value: its load can run,
\* and what it holds is what the load yields.
C20_Witness ==
    /\ ~mounted
    /\ runHistory.kind = "unparseable"
    /\ history = loadHistory(NotLoaded, runHistory)
    /\ ENABLED Load

\* C21: the entries of the persisted history have pairwise distinct ids,
\* whatever sessions were saved, two saves at one clock value included.
C21_IdsDistinct ==
    \A i, j \in 1..Len(runHistory.items) :
        i # j => runHistory.items[i].id # runHistory.items[j].id

\* C22: runMetrics.isTracking is true only between start and stop: in a
\* rendered instance it is true only while the tracker is Tracking and its
\* timer is live, and the metrics copied into a history entry at stop have
\* isTracking false.
C22_MetricsFlagFollowsSession ==
    /\ (mounted /\ runMetrics.isTracking) =>
           (isTracking /\ timerIntervalRef \in liveTimers)
    /\ \A i \in 1..Len(runHistory.items) : ~runHistory.items[i].metrics.isTracking

\* The metrics after a tick and then the fix c, and after the fix c and then a
\* tick, both from the current state (a tick leaves lastLocationRef alone).
TickThenFix(c) == FixMetrics(TickMetrics(runMetrics), c)

FixThenTick(c) == TickMetrics(FixMetrics(runMetrics, c))

C24_DistanceAndPathGrow ==
    [][(Tracking /\ (Tick \/ (\E c \in Fixes : Fix(c)) \/ PositionError)) =>
        /\ runMetrics'.distanceKm >= runMetrics.distanceKm
        /\ Len(runMetrics'.path) >= Len(runMetrics.path)
        /\ SubSeq(runMetrics'.path, 1, Len(runMetrics.path)) = runMetrics.path]_vars

\* A session seeded with the user position has accepted a fix: the path has
\* grown to two points, the distance to the leg between them, and a tick has
\* passed.
C24_Witness ==
    /\ Tracking
    /\ Len(runMetrics.path) = 2
    /\ runMetrics.distanceKm = PathDistance(1)
    /\ runMetrics.distanceKm > NOISE_THRESHOLD
    /\ runMetrics.elapsedTimeSeconds >= 1
    /\ lastLocationRef = runMetrics.path[2]

\* C25: after start() and n timer ticks with no position fix, for any n >= 0,
\* elapsedTimeSeconds is n, distanceKm is 0 and currentPace is "--:--": start
\* gives the three values for n = 0 and each tick of a session without fixes
\* takes them from n to n + 1.
C25_TicksOnly ==
    [][/\ (hasGeolocation /\ StartClick) =>
            /\ runMetrics'.elapsedTimeSeconds = 0
            /\ runMetrics'.distanceKm = 0
            /\ runMetrics'.currentPace = NO_PACE
       /\ (Tracking /\ QuietTick) =>
            /\ runMetrics'.elapsedTimeSeconds = runMetrics.elapsedTimeSeconds + 1
            /\ runMetrics'.distanceKm = 0
            /\ runMetrics'.currentPace = NO_PACE]_vars

\* Five ticks after its start, a session without fixes.
C25_Witness ==
    /\ Tracking
    /\ runMetrics.elapsedTimeSeconds = 5
    /\ runMetrics.distanceKm = 0
    /\ runMetrics.currentPace = NO_PACE

\* The entry a save has just appended.
LastEntry(store) == store.items[Len(store.items)]

\* C26 (as stated): the placeName of a saved entry is the name of the
\* destination selected at the moment of the save, or the fallback label
\* "Free Run" if no destination is selected.
C26_PlaceNameOrFreeRun ==
    [][\A t \in 0..MaxClock :
        (StopClickWith(t, TRUE) /\ Len(runHistory'.items) = Len(runHistory.items) + 1) =>
            LastEntry(runHistory').placeName =
                IF selectedPlace = NoPlace THEN "Free Run" ELSE selectedPlace]_vars

\* C26 (amended): the placeName of a saved entry is the name of the
\* destination selected at the moment of the save, or the fallback label
\* "Corrida Livre" if that name is empty or no destination is selected.
C26_PlaceNameAtSave ==
    [][\A t \in 0..MaxClock :
        (StopClickWith(t, TRUE) /\ Len(runHistory'.items) = Len(runHistory.items) + 1) =>
            LastEntry(runHistory').placeName =
                IF selectedPlace = NoPlace \/ selectedPlace = ""
                THEN "Corrida Livre"
                ELSE selectedPlace]_vars

\* The only session so far was saved under the name of the card that can be
\* picked during a run only: the selection changed between start and stop.
C26_Witness ==
    /\ nextHandle = 2
    /\ Len(runHistory.items) = 1
    /\ runHistory.items[1].placeName = "Villa-Lobos"
    /\ selectedPlace = "Villa-Lobos"

\* C27: start() on a platform without location capability starts nothing: the
\* tracker stays Idle, no timer and no subscription are created, and
\* runMetrics stays as it was.
C27_NoCapabilityNoStart ==
    [][(~hasGeolocation /\ StartClick) =>
        /\ ~isTracking'
        /\ liveTimers' = liveTimers
        /\ liveWatches' = liveWatches
        /\ timerIntervalRef' = timerIntervalRef
        /\ watchIdRef' = watchIdRef
        /\ runMetrics' = runMetrics]_vars

\* The start button is there on a platform without the capability, and
\* clicking it leaves this very state: Idle, nothing live, metrics untouched.
C27_Witness ==
    /\ ~hasGeolocation
    /\ mounted
    /\ ~isTracking
    /\ liveTimers = {}
    /\ liveWatches = {}
    /\ runMetrics = InitMetrics
    /\ ENABLED StartClick

\* C28: when the text of the route provider contains no parseable JSON array
\* of places, fetchRunningRoutes resolves with an empty places list, and the
\* tracker of a ResultDisplay that is on screen and the persisted history are
\* as they were.
C28_NoPlacesGivesEmptyList ==
    [][\A r \in 1..MaxRequests, text \in Responses \ {"placeList"} :
        FetchResolve(r, text) =>
            /\ app'.status = "SUCCESS"
            /\ app'.data.places = <<>>
            /\ runHistory' = runHistory
            /\ mounted =>
                  UNCHANGED <<mounted, isTracking, runMetrics, lastLocationRef,
                              liveTimers, liveWatches>>]_vars

\* C29: calculatePace returns the sentinel "--:--" when the distance is zero or
\* negative; otherwise it returns seconds-per-kilometre truncated to a whole
\* second (never rounded up), written as minutes, ":" and the seconds with two
\* digits. 10 km in 3600 s is 6 minutes 00 seconds per km. The claim leaves
\* open whether a one-digit minute is written with a leading zero.
C29_PaceFormat ==
    calc.pace # "" =>
        LET d == calc.distanceKm
            e == calc.elapsedSeconds
        IN  IF d <= 0
            THEN calc.pace = "--:--"
            ELSE /\ \E p \in {(e * 10000) \div d} :
                      /\ p * d <= e * 10000
                      /\ e * 10000 < (p + 1) * d
                      /\ \E lead \in {"", "0"} :
                            calc.pace = lead \o ToString(p \div 60) \o ":"
                                           \o (IF p % 60 < 10 THEN "0" ELSE "")
                                           \o ToString(p % 60)
                 /\ (d = 100000 /\ e = 3600) => calc.pace \in {"6:00", "06:00"}

\* The pace of a run whose seconds per kilometre are not whole has been
\* computed: 1000 s over 7 km is 142.86 s/km, which rounds to 02:23.
C29_Witness ==
    /\ calc.distanceKm = 70000
    /\ calc.elapsedSeconds = 1000
    /\ calc.pace = "02:22"

\* C30: formatTime returns floor(s / 60) and s mod 60, each zero-padded to at
\* least two digits, joined by ":"; 65 gives "01:05" and 3661 gives "61:01".
C30_TimeFormat ==
    calc.time # "" =>
        LET s == calc.totalSeconds
            digits(n) == (IF n < 10 THEN "0" ELSE "") \o ToString(n)
        IN  /\ calc.time = digits(s \div 60) \o ":" \o digits(s % 60)
            /\ s = 65 => calc.time = "01:05"
            /\ s = 3661 => calc.time = "61:01"
            /\ s = 7507 => calc.time = "125:07"

\* A duration of more than an hour has been formatted.
C30_Witness ==
    /\ calc.totalSeconds = 3661
    /\ calc.time = "61:01"

\* C31: calculateDistance is symmetric: for every pair of coordinates a and b
\* the distance from a to b equals the distance from b to a.
C31_DistanceSymmetric ==
    (calc.distance # NoDistance /\ calc.distanceBack # NoDistance) =>
        calc.distance = calc.distanceBack

\* Both directions have been computed between two points that differ in
\* latitude and in longitude, and the distance is positive.
C31_Witness ==
    /\ calc.a.latitude > calc.b.latitude
    /\ calc.a.longitude # calc.b.longitude
    /\ calc.distance > 0
    /\ calc.distanceBack > 0

\* The sum of the distances between the consecutive points of a path; 0 for a
\* path of fewer than two points.
RECURSIVE LegsTotal(_)
LegsTotal(path) ==
    IF Len(path) < 2 THEN 0
    ELSE calculateDistance(path[1].latitude, path[1].longitude,
                           path[2].latitude, path[2].longitude)
         + LegsTotal(Tail(path))

C33_LastKnownIsPathEnd ==
    Tracking =>
        /\ (lastLocationRef = NoCoords) <=> (runMetrics.path = <<>>)
        /\ runMetrics.path # <<>> =>
               lastLocationRef = runMetrics.path[Len(runMetrics.path)]

\* After an accepted fix and then a discarded one: the path has two points, the
\* last-known position is its second, and the user position is elsewhere.
C33_Witness ==
    /\ Tracking
    /\ Len(runMetrics.path) = 2
    /\ lastLocationRef = runMetrics.path[2]
    /\ userCoordinates # lastLocationRef

\* C34: the currentPace stored in every history entry is the calculatePace of
\* the distanceKm and elapsedTimeSeconds of that same entry, also when the last
\* event before the stop was an accepted fix and not a tick.
C34_EntryPaceMatchesEntry ==
    \A i \in 1..Len(runHistory.items) :
        LET m == runHistory.items[i].metrics
        IN  m.currentPace = calculatePace(m.distanceKm, m.elapsedTimeSeconds)

\* C35: a teardown of the component while Tracking (a new search in App stops
\* rendering ResultDisplay mid-run) writes no history entry, whatever elapsed
\* time or distance the session has: the stored history stays as it was.
C35_TeardownSavesNothing ==
    [][(Tracking /\ ~mounted') => runHistory' = runHistory]_vars

\* A run with elapsed time was torn down by a new search: App is loading, the
\* instance is gone with its session still marked as tracking, its timer and
\* subscription are released, and the store has no entry.
C35_Witness ==
    /\ ~mounted
    /\ isTracking
    /\ runMetrics.elapsedTimeSeconds >= 1
    /\ app.status = "LOADING"
    /\ liveTimers = {}
    /\ liveWatches = {}
    /\ runHistory.items = <<>>

\* C36: no tick and no fix is processed while Idle: a stop, and every step
\* after it up to the next start, leaves distanceKm, elapsedTimeSeconds,
\* currentPace and path at the final values of the stopped session; they are
\* not zeroed.
C36_IdleKeepsFinalMetrics ==
    [][(mounted /\ mounted' /\ ~isTracking') =>
        /\ runMetrics'.distanceKm = runMetrics.distanceKm
        /\ runMetrics'.elapsedTimeSeconds = runMetrics.elapsedTimeSeconds
        /\ runMetrics'.currentPace = runMetrics.currentPace
        /\ runMetrics'.path = runMetrics.path]_vars

\* A stopped session that can be followed by another: its time, its pace and
\* its two-point path are still on display, and neither a timer nor a
\* subscription is left to change them.
C36_Witness ==
    /\ mounted
    /\ ~isTracking
    /\ nextHandle = 2
    /\ runMetrics.elapsedTimeSeconds >= 1
    /\ runMetrics.currentPace # NO_PACE
    /\ Len(runMetrics.path) = 2
    /\ liveTimers = {}
    /\ liveWatches = {}
    /\ ENABLED StartClick

\* C37: a session to which the position source never delivers a fix (it may
\* report errors) still runs its timer, and a stop after at least one tick
\* saves, in a store that accepts the write, one history entry with the elapsed
\* time of the session, distanceKm 0 and currentPace "--:--".
C37_NoFixRunIsSaved ==
    [][\A t \in 0..MaxClock :
        (Tracking /\ runMetrics.elapsedTimeSeconds >= 1 /\ StopClickWith(t, TRUE)) =>
            /\ Len(runHistory'.items) = Len(runHistory.items) + 1
            /\ LastEntry(runHistory').metrics.elapsedTimeSeconds =
                   runMetrics.elapsedTimeSeconds
            /\ LastEntry(runHistory').metrics.distanceKm = 0
            /\ LastEntry(runHistory').metrics.currentPace = NO_PACE]_vars

\* A session without fixes was stopped after three ticks and its entry is in
\* the store.
C37_Witness ==
    /\ mounted
    /\ ~isTracking
    /\ Len(runHistory.items) = 1
    /\ runHistory.items[1].metrics.elapsedTimeSeconds = 3
    /\ runHistory.items[1].metrics.distanceKm = 0
    /\ runHistory.items[1].metrics.currentPace = NO_PACE

\* C38: once the stored history value is unparseable nothing changes it: no
\* start, tick, fix or stop writes the store, so the run of every later stop is
\* lost, and every load yields an empty history without raising.
C38_UnparseableStoreStays ==
    [][runHistory.kind = "unparseable" =>
        /\ runHistory' = runHistory
        /\ Load => (history'.entries = <<>> /\ ~history'.threw)]_vars

\* A session with elapsed time was stopped over an unparseable store and the
\* component is gone: the store is as it was, the run is nowhere, and the
\* history that RunHistory loads is empty.
C38_Witness ==
    /\ ~mounted
    /\ ~isTracking
    /\ runMetrics.isTracking
    /\ runMetrics.elapsedTimeSeconds >= 1
    /\ runHistory = [kind |-> "unparseable", items |-> <<>>]
    /\ history = loadHistory(NotLoaded, runHistory)
    /\ history.entries = <<>>
    /\ ENABLED Load

\* C39: when two route fetches of App are in flight at once, the data finally
\* displayed is the result of the request whose fetch was started last, in
\* whatever order the responses arrive: once no request is in flight, the data
\* on display is that of the last fetch started.
C39_LatestRequestWins ==
    (app.fetching = {} /\ app.locating = {} /\ ResultShown(app)) =>
        app.data.request = app.lastFetch

====
